---- MODULE Spec2Model ----
(***************************************************************************)
(* A model of the savvy / cvcf library: the sparse compressed_vector, the  *)
(* prefixed varint codec, the cmf marker, the cmf file reader / writer and *)
(* the marker iterators of the cmf and vcf readers.                        *)
(*                                                                         *)
(* Each component has a specification of its own (SpecCV, SpecDot,         *)
(* SpecVarint, SpecMarker, SpecSparse, SpecFile, SpecReader, SpecIter,     *)
(* SpecVcf); the variables of the other components keep the value Idle     *)
(* while one component runs.                                               *)
(***************************************************************************)
EXTENDS Integers, Sequences, FiniteSets, TLC

VARIABLES
  \* ---- savvy::compressed_vector<T> (compressed_vector.hpp:298-300)
  size_,        \* std::size_t size_
  offsets_,     \* std::vector<std::size_t> offsets_
  values_,      \* std::vector<value_type> values_
  lastOp,       \* history: the operation that produced the current state
  \* ---- a call a.dot(other, ret) of compressed_vector
  dotThis,      \* the vector dot is called on
  dotOther,     \* other
  dotInit,      \* the value of ret given
  dotRet,       \* <<value returned, turns of the loop>>, <<>> before the call
  dotSlow,      \* <<value dot_slow returned>>, <<>> before the call
  \* ---- a stream of prefixed varints (test.cpp, varint_test)
  vP,           \* PrefixBitWidth of the codec in use
  vSent,        \* history: the (prefix, value) pairs encoded so far
  vBytes,       \* the bytes of the stream
  vIt,          \* decode_it: the next byte of the stream to decode, from 1
  vGot,         \* the (prefix, value) pairs decoded so far
  vErr,         \* "none", or the error the last decode ended with
  \* ---- one vc::cmf::marker, iterated, written and read back
  mSeq,         \* the dense allele sequence, or the sparse entries, the
                \* marker was built from
  mTotal,       \* the number of haplotypes its constructor was given
  mThrown,      \* "none", or what the constructor has thrown
  mk,           \* the marker
  mFreq,        \* what calculate_allele_frequency returned, <<>> before
  mIt,          \* a marker::const_iterator walking the marker
  mYield,       \* history: the statuses the iterator has yielded
  mOut,         \* the bytes marker::write produced, none before
  mBack,        \* the result of marker::read on mOut, Unread before
  mOut2,        \* the bytes of writing the marker read back, none before
  \* ---- a cmf file: vc::cmf::writer, then vc::cmf::reader over its bytes
  fArgs,        \* <<chromosome, ploidy, samples>> given to the writer
  fGts,         \* the dense sequences the caller builds markers from
  wr,           \* the writer: sample_size_, ploidy_level_
  os,           \* its output_stream_: the bytes written, and good()
  wCalls,       \* history: the number of calls of operator<<
  wLastHap,     \* history: haplotype_count of the last marker given, -1 before
  wAccepted,    \* history: the markers given before the first mismatch
  wEverBad,     \* history: a marker with another haplotype_count was given
  is,           \* the bytes of the reader's input_stream_
  rState,       \* the reader: "closed" before it is constructed, "open", "failed"
  rChromosome,  \* its chromosome_
  rPloidy,      \* its ploidy_level_
  rSampleIds,   \* its sample_ids_
  rPos,         \* the position of its input_stream_ (bytes consumed)
  rReads,       \* history: the number of calls of operator>>
  rLast,        \* history: <<result, state before, position before>> of the last
  rDelivered,   \* history: the markers the reads delivered
  rEverFalse,   \* history: a read has returned false
  \* ---- a vc::cmf::reader::input_iterator over the reader
  iReader,      \* its file_reader_: "unset" before it is constructed,
                \* "reader", or "null"
  iBuffer,      \* the marker its buffer_ points to
  iVisited,     \* history: the markers the loop body was given
  \* ---- a vc::vcf::reader::input_iterator over the blocks of a file
  vcfFile,      \* the marker_count() of each block of the file, in order
  vcfNext,      \* the block read_next_block reads next, from 1
  vcfReader,    \* file_reader_: "unset" before construction, "reader", "null"
  vcfCount,     \* buffer_->marker_count()
  vcfI,         \* i_
  vcfVisited    \* history: <<block, index>> of every dereference of the loop

cvVars == <<size_, offsets_, values_, lastOp>>
dotVars == <<dotThis, dotOther, dotInit, dotRet, dotSlow>>
varintVars == <<vP, vSent, vBytes, vIt, vGot, vErr>>

markerVars ==
  <<mSeq, mTotal, mThrown, mk, mFreq, mIt, mYield, mOut, mBack, mOut2>>

writerVars == <<fArgs, fGts, wr, os, wCalls, wLastHap, wAccepted, wEverBad>>
readerVars ==
  <<is, rState, rChromosome, rPloidy, rSampleIds, rPos,
    rReads, rLast, rDelivered, rEverFalse>>
iterVars == <<iReader, iBuffer, iVisited>>
vcfVars == <<vcfFile, vcfNext, vcfReader, vcfCount, vcfI, vcfVisited>>
fileVars == <<writerVars, readerVars, iterVars, vcfVars>>

vars == <<cvVars, dotVars, varintVars, markerVars, fileVars>>

\* What no operation on a constructed marker changes.
markerArgs == <<mSeq, mTotal, mThrown, mk>>
otherThanMarker == <<cvVars, dotVars, varintVars, fileVars>>

Idle == "idle"

\* The components that are not running.
CVIdle == size_ = Idle /\ offsets_ = Idle /\ values_ = Idle /\ lastOp = Idle
DotIdle ==
  /\ dotThis = Idle /\ dotOther = Idle /\ dotInit = Idle
  /\ dotRet = Idle /\ dotSlow = Idle
VarintIdle ==
  /\ vP = Idle /\ vSent = Idle /\ vBytes = Idle
  /\ vIt = Idle /\ vGot = Idle /\ vErr = Idle
MarkerIdle ==
  /\ mSeq = Idle /\ mTotal = Idle /\ mThrown = Idle /\ mk = Idle
  /\ mFreq = Idle /\ mIt = Idle /\ mYield = Idle
  /\ mOut = Idle /\ mBack = Idle /\ mOut2 = Idle
VcfIdle ==
  /\ vcfFile = Idle /\ vcfNext = Idle /\ vcfReader = Idle
  /\ vcfCount = Idle /\ vcfI = Idle /\ vcfVisited = Idle
FileIdle ==
  /\ VcfIdle
  /\ fArgs = Idle /\ fGts = Idle /\ wr = Idle /\ os = Idle /\ wCalls = Idle
  /\ wLastHap = Idle /\ wAccepted = Idle /\ wEverBad = Idle
  /\ is = Idle /\ rState = Idle /\ rChromosome = Idle /\ rPloidy = Idle
  /\ rSampleIds = Idle /\ rPos = Idle /\ rReads = Idle /\ rLast = Idle
  /\ rDelivered = Idle /\ rEverFalse = Idle
  /\ iReader = Idle /\ iBuffer = Idle /\ iVisited = Idle

(***************************************************************************)
(* Bounds of the model.                                                    *)
(***************************************************************************)
MaxSize == 2      \* largest logical size / index given to compressed_vector
MaxVal == 1       \* element type T is 0..MaxVal, T() = 0
MaxPairs == 2     \* most varints encoded into one stream
MaxHap == 3       \* longest dense allele sequence a marker is built from
MaxEntries == 2   \* most entries given to the sparse constructor of a marker
MaxMarkers == 3   \* most markers given to one writer
MaxFileHap == 2   \* longest dense allele sequence of a marker given to a writer

(***************************************************************************)
(* Generic helpers on sequences (std::vector).                             *)
(***************************************************************************)
\* The strictly ascending sequences over 0..n-1, as the set of sorted
\* enumerations of the subsets of 0..n-1.
RECURSIVE SortedSeq(_)
SortedSeq(S) ==
  IF S = {} THEN <<>>
  ELSE LET m == CHOOSE x \in S : \A y \in S : x <= y
       IN <<m>> \o SortedSeq(S \ {m})

SeqsUpTo(S, n) == UNION {[1..k -> S] : k \in 0..n}

StrictlyAscending(s) == \A i \in 1..(Len(s) - 1) : s[i] < s[i + 1]

\* std::vector::resize(n, fill): truncate, or pad with fill.
VecResize(s, n, fill) ==
  IF n <= Len(s) THEN SubSeq(s, 1, n)
  ELSE s \o [i \in 1..(n - Len(s)) |-> fill]

\* std::vector::insert(begin() + at, x), at counted from 0.
VecInsert(s, at, x) == SubSeq(s, 1, at) \o <<x>> \o SubSeq(s, at + 1, Len(s))

(***************************************************************************)
(* savvy::compressed_vector<T>                                             *)
(***************************************************************************)
T == 0..MaxVal
T0 == 0                             \* value_type()

CV(sz, offs, vals) == [size |-> sz, offsets |-> offs, values |-> vals]

\* std::lower_bound(first, first + len, val) as the library computes it: the
\* halving search, which on a range that is not sorted still returns the
\* position the search ends at.  Positions are counted from 0.
RECURSIVE lower_bound_from(_, _, _, _)
lower_bound_from(s, first, len, val) ==
  IF len = 0 THEN first
  ELSE LET half == len \div 2
           middle == first + half
       IN IF s[middle + 1] < val
            THEN lower_bound_from(s, middle + 1, len - half - 1, val)
            ELSE lower_bound_from(s, first, half, val)

lower_bound(s, val) == lower_bound_from(s, 0, Len(s), val)

\* void resize(std::size_t sz, value_type val = value_type())
resize(v, sz, val) ==
  IF sz = 0
    THEN CV(sz, <<>>, <<>>)
  ELSE IF sz < v.size
    THEN LET it == lower_bound(v.offsets, sz)
             offs == SubSeq(v.offsets, 1, it)
         IN CV(sz, offs, VecResize(v.values, Len(offs), T0))
  ELSE IF val # T0
    THEN LET vals == VecResize(v.values, sz, val)
             offs == VecResize(v.offsets, sz, 0)
         IN CV(sz,
               [i \in 1..sz |-> IF i - 1 >= v.size THEN i - 1 ELSE offs[i]],
               vals)
  ELSE CV(sz, v.offsets, v.values)

\* compressed_vector(std::size_t sz = 0): resize(sz) on a size_ that was
\* never initialised; garbage is the indeterminate value size_ holds.
construct(garbage, sz) == resize(CV(garbage, <<>>, <<>>), sz, T0)

\* template <typename ValT> void assign(ValT val_it, ValT val_end)
RECURSIVE assign_dense_from(_, _)
assign_dense_from(seq, i) ==
  IF i > Len(seq) THEN [offsets |-> <<>>, values |-> <<>>]
  ELSE LET rest == assign_dense_from(seq, i + 1)
       IN IF seq[i] # 0
            THEN [offsets |-> <<i - 1>> \o rest.offsets,
                  values |-> <<seq[i]>> \o rest.values]
            ELSE rest

\* assign from a dense range that stores the positions counted from 1.
assign_dense_one_based(seq) ==
  LET r == assign_dense_from(seq, 1)
  IN CV(Len(seq), [k \in 1..Len(r.offsets) |-> r.offsets[k] + 1], r.values)

assign_dense(seq) ==
  LET r == assign_dense_from(seq, 1)
  IN CV(Len(seq), r.offsets, r.values)

\* void assign(ValT val_it, ValT val_end, OffT off_it, std::size_t sz)
assign_sparse(vals, offs, sz) == CV(sz, offs, vals)

\* value_type& operator[](std::size_t pos): the vector after the call and
\* the slot (counted from 0) the returned reference designates.
index_mut(v, pos) ==
  IF Len(v.offsets) > 0 /\ v.offsets[Len(v.offsets)] < pos
    THEN [v |-> CV(v.size, Append(v.offsets, pos), Append(v.values, T0)),
          slot |-> Len(v.values)]
  ELSE LET it == lower_bound(v.offsets, pos)
       IN IF it = Len(v.offsets) \/ v.offsets[it + 1] # pos
            THEN [v |-> CV(v.size, VecInsert(v.offsets, it, pos),
                           VecInsert(v.values, it, T0)),
                  slot |-> it]
            ELSE [v |-> v, slot |-> it]

\* const value_type& operator[](std::size_t pos) const
index_const(v, pos) ==
  LET it == lower_bound(v.offsets, pos)
  IN IF it = Len(v.offsets) \/ v.offsets[it + 1] # pos
       THEN T0
       ELSE v.values[it + 1]

\* void clear()
clear(v) == resize(v, 0, T0)

\* void reserve(std::size_t non_zero_size_hint): capacity only.
reserve(v, hint) == v

cur == CV(size_, offsets_, values_)

\* The cap on the number of stored entries the model follows.
MaxStored == MaxSize + 1

SetCV(v, op) ==
  /\ Len(v.offsets) <= MaxStored
  /\ size_' = v.size
  /\ offsets_' = v.offsets
  /\ values_' = v.values
  /\ lastOp' = op
  /\ UNCHANGED <<dotVars, varintVars, markerVars, fileVars>>

\* The record of an operation: its name, its size or index argument, its
\* value argument and (assign from a dense range) the range given.
OpRec(what, num, value, dense) == <<what, num, value, dense>>
OpName(op) == op[1]
OpN(op) == op[2]
OpVal(op) == op[3]
OpSeq(op) == op[4]

Op(what, num, value) == OpRec(what, num, value, <<>>)

CVInit ==
  /\ DotIdle
  /\ VarintIdle
  /\ MarkerIdle
  /\ FileIdle
  /\ \E garbage \in 0..(MaxSize + 1), sz \in 0..MaxSize :
       LET v == construct(garbage, sz)
       IN /\ size_ = v.size
          /\ offsets_ = v.offsets
          /\ values_ = v.values
          /\ lastOp = Op("construct", sz, T0)

AssignDense ==
  \E dense \in SeqsUpTo(T, MaxSize) :
    SetCV(assign_dense(dense), OpRec("assign_dense", Len(dense), T0, dense))

AssignSparse ==
  \E sz \in 0..MaxSize :
    \E S \in SUBSET (0..(sz - 1)) :
      \E vals \in [1..Cardinality(S) -> T] :
        SetCV(assign_sparse(vals, SortedSeq(S), sz), Op("assign_sparse", sz, T0))

IndexMut ==
  \E pos \in 0..MaxSize :
    SetCV(index_mut(cur, pos).v, Op("index", pos, T0))

\* v[pos] = x: operator[] and a store through the reference it returns.
IndexStore ==
  \E pos \in 0..MaxSize, x \in T :
    LET r == index_mut(cur, pos)
    IN SetCV([r.v EXCEPT !.values[r.slot + 1] = x], Op("store", pos, x))

Resize ==
  \E sz \in 0..MaxSize, val \in T :
    SetCV(resize(cur, sz, val), Op("resize", sz, val))

Clear == SetCV(clear(cur), Op("clear", 0, T0))

Reserve ==
  \E hint \in 0..MaxSize :
    SetCV(reserve(cur, hint), Op("reserve", hint, T0))

CVNext ==
  \/ AssignDense
  \/ AssignSparse
  \/ IndexMut
  \/ IndexStore
  \/ Resize
  \/ Clear
  \/ Reserve

SpecCV == CVInit /\ [][CVNext]_vars

(***************************************************************************)
(* Claims about compressed_vector, checked under SpecCV.                   *)
(***************************************************************************)
\* C5: after any sequence of compressed_vector operations offsets_ and
\* values_ have the same length and offsets_ is strictly ascending.
C5_OffsetsStrictlyAscending ==
  /\ Len(offsets_) = Len(values_)
  /\ StrictlyAscending(offsets_)

\* C6: after any sequence of compressed_vector operations every stored
\* offset is strictly less than size().
C6_OffsetsBelowSize ==
  \A i \in 1..Len(offsets_) : offsets_[i] < size_

\* C7: a step resize(n, fill) with n > size() ends with size() = n, fill
\* read at every index of [size, n), the value read before the call at every
\* index below the old size, and, for fill = T(), the stored offsets and
\* values as they were.
ResizeGrowPost ==
  LET n == OpN(lastOp')
      fill == OpVal(lastOp')
      after == CV(size_', offsets_', values_')
  IN /\ size_' = n
     /\ \A i \in size_..(n - 1) : index_const(after, i) = fill
     /\ \A i \in 0..(size_ - 1) : index_const(after, i) = index_const(cur, i)
     /\ fill = T0 => (offsets_' = offsets_ /\ values_' = values_)

C7_ResizeGrowth ==
  [][(OpName(lastOp') = "resize" /\ OpN(lastOp') > size_) => ResizeGrowPost]_vars


\* The vector after an operation, and the positions of seq that hold
\* something else than T().
post == CV(size_', offsets_', values_')
NonZeroPositions(seq) == {i \in 1..Len(seq) : seq[i] # T0}

\* C17: after assign from the dense sequence seq, size() is |seq|, the
\* stored entries are the pairs (i, seq[i]) with seq[i] # T(), ascending in
\* i, and the const operator[] returns seq[i] at every i < |seq|.
C17_AssignDense ==
  OpName(lastOp) = "assign_dense" =>
    LET seq == OpSeq(lastOp)
    IN /\ size_ = Len(seq)
       /\ offsets_ = SortedSeq({i - 1 : i \in NonZeroPositions(seq)})
       /\ Len(values_) = Len(offsets_)
       /\ \A k \in 1..Len(offsets_) : values_[k] = seq[offsets_[k] + 1]
       /\ \A i \in 1..Len(seq) : index_const(cur, i - 1) = seq[i]

\* The sequence (0, 1) was assigned.
C17_Witness ==
  /\ OpName(lastOp) = "assign_dense"
  /\ OpSeq(lastOp) = <<T0, 1>>
  /\ offsets_ = <<1>>

\* The positions of the stored entries whose offset is below n, ascending.
KeptBelow(n) ==
  SortedSeq({k \in 1..Len(offsets_) : offsets_[k] < n})

\* C19: resize(n) with 0 < n < size() leaves exactly the entries stored
\* before whose offset is below n, in their order and with their values,
\* and size() = n; resize(0) leaves no entry and size() = 0.
C19_ResizeShrink ==
  [][(OpName(lastOp') = "resize" /\ OpN(lastOp') < size_) =>
       /\ size_' = OpN(lastOp')
       /\ Len(offsets_') = Len(KeptBelow(OpN(lastOp')))
       /\ Len(values_') = Len(offsets_')
       /\ \A k \in 1..Len(offsets_') :
            /\ offsets_'[k] = offsets_[KeptBelow(OpN(lastOp'))[k]]
            /\ values_'[k] = values_[KeptBelow(OpN(lastOp'))[k]]]_vars

\* C20: the mutable operator[](i) leaves the stored entries as they are when
\* i is stored, and otherwise inserts (i, T()) where the offsets stay
\* ascending; size() and what the const operator[] returns at every index
\* stay as they were; a store through the reference returned changes the
\* value read at i and at no other index.
C20_MutableIndex ==
  [][(OpName(lastOp') \in {"index", "store"}) =>
       LET i == OpN(lastOp')
           present == \E k \in 1..Len(offsets_) : offsets_[k] = i
       IN /\ size_' = size_
          /\ present => offsets_' = offsets_
          /\ (present /\ OpName(lastOp') = "index") => values_' = values_
          /\ ~present =>
               \E at \in 0..Len(offsets_) :
                 /\ offsets_' = VecInsert(offsets_, at, i)
                 /\ values_' = VecInsert(values_, at,
                                         IF OpName(lastOp') = "store"
                                           THEN OpVal(lastOp') ELSE T0)
                 /\ StrictlyAscending(offsets_) => StrictlyAscending(offsets_')
          /\ \A j \in 0..(MaxSize + 1) :
               index_const(post, j) =
                 IF j = i /\ OpName(lastOp') = "store"
                   THEN OpVal(lastOp') ELSE index_const(cur, j)]_vars

\* C27: resize(s, fill) on a vector of size s > 0 leaves the stored offsets,
\* the stored values, size() and what the const operator[] returns at every
\* index as they were, also for a fill that is not T().
C27_ResizeSameSize ==
  [][(OpName(lastOp') = "resize" /\ OpN(lastOp') = size_ /\ size_ > 0) =>
       /\ size_' = size_
       /\ offsets_' = offsets_
       /\ values_' = values_
       /\ \A j \in 0..(MaxSize + 1) :
            index_const(post, j) = index_const(cur, j)]_vars

\* What C27 states for the fill T().
ResizeSameSizeDefaultFill ==
  [][(OpName(lastOp') = "resize" /\ OpN(lastOp') = size_ /\ size_ > 0
        /\ OpVal(lastOp') = T0) =>
       /\ size_' = size_
       /\ offsets_' = offsets_
       /\ values_' = values_]_vars

(***************************************************************************)
(* compressed_vector::dot: one call a.dot(other, ret).  Both vectors are   *)
(* filled by the sparse assign; a resize of the vector the call is made on *)
(* may come before the call.                                               *)
(***************************************************************************)
\* The loop of dot from the iterators it, jt (counted from 0): the value
\* returned and the number of turns the loop has taken.
RECURSIVE dot_from(_, _, _, _, _, _)
dot_from(v, other, it, jt, ret, turns) ==
  IF it = Len(v.offsets) \/ jt = Len(other.offsets)
    THEN <<ret, turns>>
  ELSE IF v.offsets[it + 1] < other.offsets[jt + 1]
    THEN dot_from(v, other, it + 1, jt, ret, turns + 1)
  ELSE IF other.offsets[jt + 1] < v.offsets[it + 1]
    THEN dot_from(v, other, it, jt + 1, ret, turns + 1)
  ELSE dot_from(v, other, it + 1, jt + 1,
                ret + v.values[it + 1] * other.values[jt + 1], turns + 1)

\* The loop of either branch of dot_slow: it walks the offsets of x, jt is
\* moved by std::lower_bound over what is left of the offsets of y; adds
\* tells whether the branch adds the product to ret.
RECURSIVE dot_slow_from(_, _, _, _, _, _)
dot_slow_from(x, y, it, jt, ret, adds) ==
  IF it = Len(x.offsets) \/ jt = Len(y.offsets) THEN ret
  ELSE LET found == lower_bound_from(y.offsets, jt, Len(y.offsets) - jt,
                                     x.offsets[it + 1])
       IN IF found # Len(y.offsets) /\ y.offsets[found + 1] = x.offsets[it + 1]
            THEN dot_slow_from(x, y, it + 1, found + 1,
                               IF adds
                                 THEN ret + x.values[it + 1] * y.values[found + 1]
                                 ELSE ret,
                               adds)
            ELSE dot_slow_from(x, y, it + 1, found, ret, adds)

\* template <typename AggregateT>
\* AggregateT dot_slow(const self_type& other, AggregateT ret) const: the
\* branch for size() < other.size() computes the product and drops it.
dot_slow(v, other, ret) ==
  IF v.size < other.size
    THEN dot_slow_from(v, other, 0, 0, ret, FALSE)
    ELSE dot_slow_from(other, v, 0, 0, ret, TRUE)

\* A merge that steps over two equal offsets without adding the product.
dot_dropping(v, other, ret) == <<ret, dot_from(v, other, 0, 0, ret, 0)[2]>>

\* template <typename AggregateT>
\* AggregateT dot(const self_type& other, AggregateT ret) const
dot(v, other, ret) == dot_from(v, other, 0, 0, ret, 0)

\* The vectors the sparse assign builds from ascending offsets below sz.
DotVectors ==
  UNION {UNION {{assign_sparse(vals, SortedSeq(S), sz) :
                   vals \in [1..Cardinality(S) -> T]} :
                S \in SUBSET (0..(sz - 1))} :
         sz \in 0..MaxSize}

DotInit ==
  /\ CVIdle
  /\ VarintIdle
  /\ MarkerIdle
  /\ FileIdle
  /\ dotThis \in DotVectors
  /\ dotOther \in DotVectors
  /\ dotInit \in T
  /\ dotRet = <<>>
  /\ dotSlow = <<>>

\* this->resize(sz, val) before the call.
DotResize ==
  \E sz \in 0..MaxSize, val \in T :
    /\ dotRet = <<>>
    /\ dotSlow = <<>>
    /\ dotThis' = resize(dotThis, sz, val)
    /\ dotThis' # dotThis
    /\ UNCHANGED <<dotOther, dotInit, dotRet, dotSlow>>
    /\ UNCHANGED <<cvVars, varintVars, markerVars, fileVars>>

\* this->dot(other, ret)
DotCall ==
  /\ dotRet = <<>>
  /\ dotRet' = dot(dotThis, dotOther, dotInit)
  /\ UNCHANGED <<dotThis, dotOther, dotInit, dotSlow>>
  /\ UNCHANGED <<cvVars, varintVars, markerVars, fileVars>>

\* this->dot_slow(other, ret)
DotSlowCall ==
  /\ dotSlow = <<>>
  /\ dotSlow' = <<dot_slow(dotThis, dotOther, dotInit)>>
  /\ UNCHANGED <<dotThis, dotOther, dotInit, dotRet>>
  /\ UNCHANGED <<cvVars, varintVars, markerVars, fileVars>>

DotNext ==
  \/ DotResize
  \/ DotCall
  \/ DotSlowCall

SpecDot == DotInit /\ [][DotNext]_vars

\* The pairs of stored positions that hold the same offset, and the sum of
\* the products of their values.
MatchingPairs(a, b) ==
  {p \in (1..Len(a.offsets)) \X (1..Len(b.offsets)) :
     a.offsets[p[1]] = b.offsets[p[2]]}

RECURSIVE SumOfProducts(_, _, _)
SumOfProducts(a, b, pairs) ==
  IF pairs = {} THEN 0
  ELSE LET p == CHOOSE q \in pairs : TRUE
       IN a.values[p[1]] * b.values[p[2]] + SumOfProducts(a, b, pairs \ {p})

\* The inner product of the two vectors read index by index through the
\* const operator[], over the indices 0..n.
RECURSIVE DenseProduct(_, _, _)
DenseProduct(a, b, n) ==
  IF n < 0 THEN 0
  ELSE index_const(a, n) * index_const(b, n) + DenseProduct(a, b, n - 1)

\* C18: for two vectors whose offsets are strictly ascending, dot returns
\* init plus the sum of a.values[i] * b.values[j] over the pairs (i, j) with
\* a.offsets[i] = b.offsets[j], which is the dense inner product, and the
\* merge takes at most |a.offsets| + |b.offsets| turns.
C18_Dot ==
  (/\ dotRet # Idle
   /\ dotRet # <<>>
   /\ StrictlyAscending(dotThis.offsets)
   /\ StrictlyAscending(dotOther.offsets)) =>
    /\ dotRet[1] =
         dotInit + SumOfProducts(dotThis, dotOther,
                                 MatchingPairs(dotThis, dotOther))
    /\ dotRet[1] = dotInit + DenseProduct(dotThis, dotOther, MaxSize)
    /\ dotRet[2] <= Len(dotThis.offsets) + Len(dotOther.offsets)

\* Two vectors that store a one at both indices 0 and 1: init 1 plus 2.
C18_Witness ==
  /\ dotRet = <<3, 2>>
  /\ dotInit = 1
  /\ dotThis.offsets = <<0, 1>>
  /\ dotOther.offsets = <<0, 1>>

\* C26: for two vectors whose offsets are strictly ascending, of equal or
\* of different sizes, and every init, dot_slow returns what dot returns.
C26_DotSlowEqualsDot ==
  (/\ dotRet # <<>>
   /\ dotSlow # <<>>
   /\ StrictlyAscending(dotThis.offsets)
   /\ StrictlyAscending(dotOther.offsets)) =>
    dotSlow[1] = dotRet[1]

\* What C26 states for the calls on a vector that is not smaller than other.
DotSlowEqualsDotNotSmaller ==
  dotThis.size >= dotOther.size => C26_DotSlowEqualsDot

(***************************************************************************)
(* Prefixed varints (spec 4.A).  A 64-bit value is the set of the          *)
(* positions 0..63 of its one bits, so that the full width is kept.        *)
(***************************************************************************)
U64Bits == 64
MaxVarintBytes == 10

ByteValues == 0..255

RECURSIVE SumPow2(_)
SumPow2(S) ==
  IF S = {} THEN 0
  ELSE LET b == CHOOSE x \in S : TRUE
       IN 2^b + SumPow2(S \ {b})

\* The number whose one bits are S (S within 0..7), and back.
ByteOfBits(S) == SumPow2(S)
BitsOfByte(b) == {i \in 0..7 : (b \div 2^i) % 2 = 1}

ShiftRight(v, k) == {i - k : i \in {j \in v : j >= k}}
ShiftLeft(v, k) == {i + k : i \in v}
LowBits(v, k) == {i \in v : i < k}

\* The value of a small natural number, and the number of a value below
\* 2^30.
ValueOfNat(n) == {i \in 0..30 : (n \div 2^i) % 2 = 1}
NatOfValue(v) == SumPow2(v)

\* The continuation bytes of what is left of the value: 7 bits each, least
\* significant first, the top bit set when more follow.
RECURSIVE varint_continuation(_)
varint_continuation(rest) ==
  IF rest = {} THEN <<>>
  ELSE LET next == ShiftRight(rest, 7)
       IN <<(IF next # {} THEN 128 ELSE 0) + ByteOfBits(LowBits(rest, 7))>>
            \o varint_continuation(next)

\* encode with the prefix in the low bits of the first byte.
varint_encode_p_prefix_low(P, prefix, value) ==
  LET k == 7 - P
      rest == ShiftRight(value, k)
  IN <<(IF rest # {} THEN 128 ELSE 0) + prefix + 2^P * ByteOfBits(LowBits(value, k))>>
       \o varint_continuation(rest)

\* encode that writes the value 0 in two bytes.
varint_encode_p_long_zero(P, prefix, value) ==
  LET k == 7 - P
      rest == ShiftRight(value, k)
  IN IF value = {} THEN <<128 + prefix * 2^k, 0>>
     ELSE <<(IF rest # {} THEN 128 ELSE 0) + prefix * 2^k
              + ByteOfBits(LowBits(value, k))>>
            \o varint_continuation(rest)

\* prefixed_varint<P>::encode(prefix, value, out): the bytes written.
varint_encode_p(P, prefix, value) ==
  LET k == 7 - P
      rest == ShiftRight(value, k)
  IN <<(IF rest # {} THEN 128 ELSE 0) + prefix * 2^k + ByteOfBits(LowBits(value, k))>>
       \o varint_continuation(rest)

\* The continuation bytes read from position at (the byte before it had its
\* top bit set); n counts the bytes read so far.
RECURSIVE varint_decode_rest(_, _, _, _, _, _)
varint_decode_rest(bytes, at, shift, n, prefix, acc) ==
  IF n >= MaxVarintBytes
    THEN [err |-> "OVERFLOW", prefix |-> prefix, value |-> acc, last |-> at - 1]
  ELSE IF at > Len(bytes)
    THEN [err |-> "TRUNCATED", prefix |-> prefix, value |-> acc, last |-> at - 1]
  ELSE LET b == bytes[at]
           more == ShiftLeft(BitsOfByte(b % 128), shift)
       IN IF \E i \in more : i >= U64Bits
            THEN [err |-> "OVERFLOW", prefix |-> prefix, value |-> acc, last |-> at]
          ELSE IF b >= 128
            THEN varint_decode_rest(bytes, at + 1, shift + 7, n + 1, prefix, acc \cup more)
          ELSE [err |-> "none", prefix |-> prefix, value |-> acc \cup more, last |-> at]

\* prefixed_varint<P>::decode(it, end, prefix, value) on the byte at position
\* at: the error or the prefix and value, and the position of the last byte
\* read (the iterator decode returns).
varint_decode_p(P, bytes, at) ==
  IF at > Len(bytes)
    THEN [err |-> "TRUNCATED", prefix |-> 0, value |-> {}, last |-> at - 1]
  ELSE LET k == 7 - P
           b == bytes[at]
           prefix == (b % 128) \div 2^k
           low == BitsOfByte(b % 2^k)
       IN IF b >= 128
            THEN varint_decode_rest(bytes, at + 1, k, 1, prefix, low)
            ELSE [err |-> "none", prefix |-> prefix, value |-> low, last |-> at]

\* varint_encode / varint_decode: the codec without prefix.
varint_encode(value) == varint_encode_p(0, 0, value)
varint_decode(bytes, at) == varint_decode_p(0, bytes, at)

\* The values and prefixes the model encodes with prefix width P: 0, the
\* largest value of one byte, the smallest of two, 2^62, 2^63, 2^64 - 1.
VarintValues(P) ==
  {{}, 0..(6 - P), {7 - P}, {U64Bits - 2}, {U64Bits - 1}, 0..(U64Bits - 1)}
VarintPrefixes(P) == {0, 2^P - 1}

VarintInit ==
  /\ CVIdle
  /\ DotIdle
  /\ MarkerIdle
  /\ FileIdle
  /\ vP \in 0..7
  /\ vSent = <<>>
  /\ vBytes = <<>>
  /\ vIt = 1
  /\ vGot = <<>>
  /\ vErr = "none"

\* encode(prefix_data, i, output_it)
VarintEncode ==
  /\ Len(vSent) < MaxPairs
  /\ \E prefix \in VarintPrefixes(vP), value \in VarintValues(vP) :
       /\ vSent' = Append(vSent, <<prefix, value>>)
       /\ vBytes' = vBytes \o varint_encode_p(vP, prefix, value)
  /\ UNCHANGED <<vP, vIt, vGot, vErr, cvVars, dotVars, markerVars, fileVars>>

\* decode_it = ++decode(decode_it, end, prefix_data, arr[i])
VarintDecode ==
  /\ vErr = "none"
  /\ Len(vGot) < Len(vSent)
  /\ LET r == varint_decode_p(vP, vBytes, vIt)
     IN /\ vErr' = r.err
        /\ vGot' = IF r.err = "none" THEN Append(vGot, <<r.prefix, r.value>>) ELSE vGot
        /\ vIt' = r.last + 1
  /\ UNCHANGED <<vP, vSent, vBytes, cvVars, dotVars, markerVars, fileVars>>

VarintNext == VarintEncode \/ VarintDecode

SpecVarint == VarintInit /\ [][VarintNext]_vars

\* The bytes of the first n pairs of a stream.
RECURSIVE EncodedLength(_, _, _)
EncodedLength(P, pairs, n) ==
  IF n = 0 THEN 0
  ELSE EncodedLength(P, pairs, n - 1) + Len(varint_encode_p(P, pairs[n][1], pairs[n][2]))

\* C3: decoding a stream of back to back varints returns the encoded
\* (prefix, value) pairs in order without error, and after each decode the
\* iterator, advanced once, is at the first byte of the next varint.
C3_VarintStreamRoundTrip ==
  /\ vErr = "none"
  /\ Len(vGot) <= Len(vSent)
  /\ vGot = SubSeq(vSent, 1, Len(vGot))
  /\ vIt = 1 + EncodedLength(vP, vSent, Len(vGot))


\* The largest element of a set of numbers that is not empty.
MaxOf(S) == CHOOSE x \in S : \A y \in S : y <= x

\* The number of bytes the layout of spec 4.A has for value with prefix
\* width P: the first byte holds 7 - P bits, every other byte 7.
LayoutLength(P, value) ==
  IF \A i \in value : i < 7 - P THEN 1
  ELSE 2 + ((MaxOf(value) - (7 - P)) \div 7)

\* bytes are laid out as spec 4.A has it for (prefix, value): the first
\* byte is cont * 128 + prefix * 2^(7-P) + value mod 2^(7-P), byte j after
\* it carries the next 7 bits of the value, and the top bit of a byte is set
\* exactly when more bytes follow.
Layout(P, prefix, value, bytes) ==
  /\ Len(bytes) = LayoutLength(P, value)
  /\ bytes[1] = (IF \E i \in value : i >= 7 - P THEN 128 ELSE 0)
                  + prefix * 2^(7 - P)
                  + ByteOfBits(LowBits(value, 7 - P))
  /\ \A j \in 2..Len(bytes) :
       bytes[j] = (IF j < Len(bytes) THEN 128 ELSE 0)
                    + ByteOfBits({i - ((7 - P) + 7 * (j - 2)) :
                                    i \in {b \in value :
                                             /\ b >= (7 - P) + 7 * (j - 2)
                                             /\ b < (7 - P) + 7 * (j - 1)}})

\* The encodings spec 4.A lists.
LayoutExamples(P, prefix, value, bytes) ==
  /\ (P = 0 /\ value = {}) => bytes = <<0>>
  /\ (P = 0 /\ value = 0..6) => bytes = <<127>>
  /\ (P = 0 /\ value = {7}) => bytes = <<128, 1>>
  /\ (P = 1 /\ prefix = 1 /\ value = {}) => bytes = <<64>>
  /\ (P = 1 /\ prefix = 0 /\ value = 0..5) => bytes = <<63>>

\* The position in the stream of the first byte of pair n, by the layout.
RECURSIVE LayoutStart(_, _, _)
LayoutStart(P, pairs, n) ==
  IF n = 1 THEN 1
  ELSE LayoutStart(P, pairs, n - 1) + LayoutLength(P, pairs[n - 1][2])

\* C14: the bytes encode has written for each (prefix, value) are laid out
\* as spec 4.A has it: first byte cont * 128 + prefix * 2^(7-P)
\* + value mod 2^(7-P) with cont set exactly when value >= 2^(7-P), then 7
\* bits a byte, least significant first, top bit set exactly when more
\* follow; and the listed encodings are as listed.
C14_VarintLayout ==
  \A n \in 1..Len(vSent) :
    LET from == LayoutStart(vP, vSent, n)
        bytes == SubSeq(vBytes, from, from + LayoutLength(vP, vSent[n][2]) - 1)
    IN /\ from + LayoutLength(vP, vSent[n][2]) - 1 <= Len(vBytes)
       /\ Layout(vP, vSent[n][1], vSent[n][2], bytes)
       /\ LayoutExamples(vP, vSent[n][1], vSent[n][2], bytes)

\* With a prefix of one bit, (1, 0) and then (0, 63) were encoded.
C14_Witness ==
  /\ vP = 1
  /\ vSent = <<<<1, {}>>, <<0, 0..5>>>>
  /\ vBytes = <<64, 63>>

\* C15: what encode has written for a pair is at most 10 bytes long, and no
\* decode of the stream has ended in OVERFLOW.
C15_VarintNoOverflow ==
  /\ \A n \in 1..Len(vSent) :
       Len(varint_encode_p(vP, vSent[n][1], vSent[n][2])) <= MaxVarintBytes
  /\ vErr # "OVERFLOW"

\* a <= b for two 64-bit values given by their one bits: they are equal, or
\* the highest bit in which they differ is set in b.
U64LessEq(a, b) ==
  \/ a = b
  \/ MaxOf((a \ b) \cup (b \ a)) \in b

\* 0, every power of two below 2^64 and every 2^(b+1) - 1: the least and
\* the largest value of every length in bits.
PowersAndOnes ==
  {{}} \cup {{b} : b \in 0..(U64Bits - 1)} \cup {0..b : b \in 0..(U64Bits - 1)}

\* C25: for a fixed prefix width P and two values v1 <= v2, encode writes at
\* most as many bytes for v1 as for v2, whatever the two prefixes.
\* Compared are the values encoded into one stream, and, for the codec of
\* each width before its first encode, the least and the largest value of
\* every length in bits.
C25_VarintSizeMonotone ==
  /\ \A m, n \in 1..Len(vSent) :
       U64LessEq(vSent[m][2], vSent[n][2]) =>
         Len(varint_encode_p(vP, vSent[m][1], vSent[m][2]))
           <= Len(varint_encode_p(vP, vSent[n][1], vSent[n][2]))
  /\ vSent = <<>> =>
       LET size == [v \in PowersAndOnes, prefix \in VarintPrefixes(vP) |->
                      Len(varint_encode_p(vP, prefix, v))]
       IN \A v1, v2 \in PowersAndOnes :
            U64LessEq(v1, v2) =>
              \A p1, p2 \in VarintPrefixes(vP) : size[v1, p1] <= size[v2, p2]

\* With a prefix of two bits, 31 with prefix 3 was written in one byte and
\* then 32 with prefix 0 in two.
C25_Witness ==
  /\ vP = 2
  /\ vSent = <<<<3, 0..4>>, <<0, {5}>>>>
  /\ Len(vBytes) = 3
  /\ U64LessEq(vSent[1][2], vSent[2][2])
  /\ ~U64LessEq(vSent[2][2], vSent[1][2])

(***************************************************************************)
(* vc::cmf::marker                                                         *)
(***************************************************************************)
has_ref == "has_ref"
has_alt == "has_alt"
is_missing == "is_missing"
allele_status == {has_ref, has_alt, is_missing}

\* sparse_vector_allele(allele_status s, std::uint64_t o)
sparse_vector_allele(s, o) == [offset |-> o, status |-> s]

Marker(position, ref, alt, haplotype_count, non_zero_haplotypes) ==
  [position_ |-> position, ref_ |-> ref, alt_ |-> alt,
   haplotype_count_ |-> haplotype_count,
   non_zero_haplotypes_ |-> non_zero_haplotypes]

\* The loop of the dense constructor from gt[at], at counted from 1 (off is
\* at - 1).
RECURSIVE marker_dense_from(_, _)
marker_dense_from(gt, at) ==
  IF at > Len(gt) THEN <<>>
  ELSE IF gt[at] # has_ref
    THEN <<sparse_vector_allele(gt[at], at - 1)>> \o marker_dense_from(gt, at + 1)
    ELSE marker_dense_from(gt, at + 1)

\* A dense constructor that stores the alt calls only.
marker_dense_alt_only(position, ref, alt, gt) ==
  Marker(position, ref, alt, Len(gt),
         SelectSeq(marker_dense_from(gt, 1), LAMBDA e : e.status = has_alt))

\* marker(position, ref, alt, gt_beg, gt_end)
marker_dense(position, ref, alt, gt) ==
  Marker(position, ref, alt, Len(gt), marker_dense_from(gt, 1))

\* marker::const_iterator(off, ptr, ptr_end); ptr counts the entries before
\* the one it designates, so that ptr_end is the number of entries.
const_iterator(off, ptr, ptr_end) == [i_ |-> off, ptr_ |-> ptr, ptr_end_ |-> ptr_end]

\* An increment that never advances ptr_.
const_iterator_increment_stuck(m, it) ==
  const_iterator(it.i_ + 1, it.ptr_, it.ptr_end_)

\* const_iterator::increment
const_iterator_increment(m, it) ==
  IF it.ptr_ # it.ptr_end_
     /\ it.i_ = m.non_zero_haplotypes_[it.ptr_ + 1].offset
    THEN const_iterator(it.i_ + 1, it.ptr_ + 1, it.ptr_end_)
    ELSE const_iterator(it.i_ + 1, it.ptr_, it.ptr_end_)

\* const_iterator::operator*
const_iterator_deref(m, it) ==
  IF it.ptr_ # it.ptr_end_
     /\ it.i_ = m.non_zero_haplotypes_[it.ptr_ + 1].offset
    THEN (IF m.non_zero_haplotypes_[it.ptr_ + 1].status = is_missing
            THEN is_missing ELSE has_alt)
    ELSE has_ref

\* const_iterator::operator!=
const_iterator_neq(a, b) == a.i_ # b.i_

\* marker::begin, marker::end
marker_begin(m) == const_iterator(0, 0, Len(m.non_zero_haplotypes_))
marker_end(m) ==
  const_iterator(m.haplotype_count_, Len(m.non_zero_haplotypes_),
                 Len(m.non_zero_haplotypes_))

\* u64 subtraction a - b of two small numbers, as the set of one bits of the
\* difference modulo 2^64.
U64Sub(a, b) ==
  IF a >= b THEN ValueOfNat(a - b)
  ELSE (0..(U64Bits - 1)) \ ValueOfNat(b - a - 1)

\* Entries written with their absolute offsets.
RECURSIVE marker_write_entries_absolute(_, _, _)
marker_write_entries_absolute(entries, at, prev) ==
  IF at > Len(entries) THEN <<>>
  ELSE varint_encode_p(1, IF entries[at].status = has_alt THEN 1 ELSE 0,
                       ValueOfNat(entries[at].offset))
         \o marker_write_entries_absolute(entries, at + 1, entries[at].offset)

\* Entries written with the gap after the offset emitted before: every
\* value but the first is one less than the difference.
RECURSIVE marker_write_entries_gap_after(_, _, _)
marker_write_entries_gap_after(entries, at, prev) ==
  IF at > Len(entries) THEN <<>>
  ELSE varint_encode_p(1, IF entries[at].status = has_alt THEN 1 ELSE 0,
                       IF at = 1 THEN ValueOfNat(entries[at].offset)
                       ELSE U64Sub(entries[at].offset, prev + 1))
         \o marker_write_entries_gap_after(entries, at + 1, entries[at].offset)

\* The entries of a marker from entry at on, each a 1-bit prefixed varint of
\* the difference to the offset emitted before (prev).
RECURSIVE marker_write_entries(_, _, _)
marker_write_entries(entries, at, prev) ==
  IF at > Len(entries) THEN <<>>
  ELSE varint_encode_p(1, IF entries[at].status = has_alt THEN 1 ELSE 0,
                       U64Sub(entries[at].offset, prev))
         \o marker_write_entries(entries, at + 1, entries[at].offset)

\* marker::write(os, source): the bytes written.
marker_write(m) ==
  varint_encode(m.position_)
    \o varint_encode(ValueOfNat(Len(m.ref_))) \o m.ref_
    \o varint_encode(ValueOfNat(Len(m.alt_))) \o m.alt_
    \o varint_encode(ValueOfNat(Len(m.non_zero_haplotypes_)))
    \o marker_write_entries(m.non_zero_haplotypes_, 1, 0)

\* A decoded number too large to be a length or an offset of the model.
TooLarge(v) == \E i \in v : i >= 20

ReadResult(err, m, next) == [err |-> err, marker |-> m, next |-> next]
\* marker() = default, as the destination of a read that delivers nothing.
NoMarker(haplotype_count) == Marker({}, <<>>, <<>>, haplotype_count, <<>>)

\* The sparse constructor without its two tests.
marker_sparse_unchecked(position, ref, alt, gt, total_haplotype_count) ==
  [err |-> "none",
   marker |-> Marker(position, ref, alt, total_haplotype_count, gt)]

\* marker(position, ref, alt, gt_beg, gt_end, total_haplotype_count): the
\* entries are copied as given; an entry with has_ref, or more entries than
\* total_haplotype_count, ends in a throw.
marker_sparse(position, ref, alt, gt, total_haplotype_count) ==
  IF \E i \in 1..Len(gt) : gt[i].status = has_ref
    THEN [err |-> "range_error", marker |-> NoMarker(total_haplotype_count)]
  ELSE IF total_haplotype_count < Len(gt)
    THEN [err |-> "range_error", marker |-> NoMarker(total_haplotype_count)]
  ELSE [err |-> "none",
        marker |-> Marker(position, ref, alt, total_haplotype_count, gt)]

\* The loop of calculate_allele_frequency from entry at on: the count of
\* alleles and the haplotypes that are not missing.  total_haplotypes is a
\* std::uint64_t: a number below 0 stands for that number plus 2^64, what
\* --total_haplotypes leaves after 0.
RECURSIVE allele_frequency_counts(_, _, _, _)
allele_frequency_counts(entries, at, allele_cnt, total_haplotypes) ==
  IF at > Len(entries) THEN <<allele_cnt, total_haplotypes>>
  ELSE IF entries[at].status = has_alt
    THEN allele_frequency_counts(entries, at + 1, allele_cnt + 1, total_haplotypes)
    ELSE allele_frequency_counts(entries, at + 1, allele_cnt, total_haplotypes - 1)

\* The double static_cast<double>(num) / static_cast<double>(den): not a
\* number for 0 / 0, infinite for another num / 0, else the quotient.
DoubleQuotient(num, den) ==
  IF den = 0 THEN (IF num = 0 THEN <<"nan", num, den>> ELSE <<"inf", num, den>>)
  ELSE <<"quotient", num, den>>

\* calculate_allele_frequency that counts the missing haplotypes in.
calculate_allele_frequency_of_all(m) ==
  DoubleQuotient(
    allele_frequency_counts(m.non_zero_haplotypes_, 1, 0, m.haplotype_count_)[1],
    m.haplotype_count_)

\* marker::calculate_allele_frequency
calculate_allele_frequency(m) ==
  DoubleQuotient(
    allele_frequency_counts(m.non_zero_haplotypes_, 1, 0, m.haplotype_count_)[1],
    allele_frequency_counts(m.non_zero_haplotypes_, 1, 0, m.haplotype_count_)[2])

\* The entries of a record, read without the test against haplotype_count.
RECURSIVE marker_read_entries_unchecked(_, _, _, _, _, _)
marker_read_entries_unchecked(bytes, at, left, prev, haplotype_count, acc) ==
  IF left = 0 THEN [err |-> "none", entries |-> acc, next |-> at]
  ELSE LET d == varint_decode_p(1, bytes, at)
       IN IF d.err # "none"
            THEN [err |-> d.err, entries |-> acc, next |-> d.last + 1]
          ELSE IF TooLarge(d.value)
            THEN [err |-> "MALFORMED", entries |-> acc, next |-> d.last + 1]
          ELSE LET offset == (IF prev < 0 THEN 0 ELSE prev) + NatOfValue(d.value)
               IN IF offset = prev
                    THEN [err |-> "MALFORMED", entries |-> acc, next |-> d.last + 1]
                    ELSE marker_read_entries_unchecked(
                           bytes, d.last + 1, left - 1, offset, haplotype_count,
                           Append(acc, sparse_vector_allele(
                                         IF d.prefix = 1 THEN has_alt ELSE is_missing,
                                         offset)))

\* The entries of a record: left more to decode from position at, prev the
\* offset decoded before (-1 before the first), acc the entries so far.
RECURSIVE marker_read_entries(_, _, _, _, _, _)
marker_read_entries(bytes, at, left, prev, haplotype_count, acc) ==
  IF left = 0 THEN [err |-> "none", entries |-> acc, next |-> at]
  ELSE LET d == varint_decode_p(1, bytes, at)
       IN IF d.err # "none"
            THEN [err |-> d.err, entries |-> acc, next |-> d.last + 1]
          ELSE IF TooLarge(d.value)
            THEN [err |-> "MALFORMED", entries |-> acc, next |-> d.last + 1]
          ELSE LET offset == (IF prev < 0 THEN 0 ELSE prev) + NatOfValue(d.value)
               IN IF offset >= haplotype_count \/ offset = prev
                    THEN [err |-> "MALFORMED", entries |-> acc, next |-> d.last + 1]
                    ELSE marker_read_entries(
                           bytes, d.last + 1, left - 1, offset, haplotype_count,
                           Append(acc, sparse_vector_allele(
                                         IF d.prefix = 1 THEN has_alt ELSE is_missing,
                                         offset)))

\* A length prefixed string at position at.
read_string(bytes, at) ==
  LET n == varint_decode(bytes, at)
  IN IF n.err # "none"
       THEN [err |-> n.err, str |-> <<>>, next |-> n.last + 1]
     ELSE IF TooLarge(n.value) \/ n.last + NatOfValue(n.value) > Len(bytes)
       THEN [err |-> "TRUNCATED", str |-> <<>>, next |-> Len(bytes) + 1]
     ELSE [err |-> "none",
           str |-> SubSeq(bytes, n.last + 1, n.last + NatOfValue(n.value)),
           next |-> n.last + NatOfValue(n.value) + 1]

\* marker::read(destination, haplotype_count, is) from position at of the
\* bytes: "EOF" when the stream ends before the record starts, an error, or
\* the marker; next is the position after the bytes read.
marker_read(haplotype_count, bytes, at) ==
  IF at > Len(bytes) THEN ReadResult("EOF", NoMarker(haplotype_count), at)
  ELSE
  LET pos == varint_decode(bytes, at)
  IN IF pos.err # "none" THEN ReadResult(pos.err, NoMarker(haplotype_count), pos.last + 1)
     ELSE
     LET ref == read_string(bytes, pos.last + 1)
     IN IF ref.err # "none" THEN ReadResult(ref.err, NoMarker(haplotype_count), ref.next)
        ELSE
        LET alt == read_string(bytes, ref.next)
        IN IF alt.err # "none" THEN ReadResult(alt.err, NoMarker(haplotype_count), alt.next)
           ELSE
           LET cnt == varint_decode(bytes, alt.next)
           IN IF cnt.err # "none" THEN ReadResult(cnt.err, NoMarker(haplotype_count), cnt.last + 1)
              ELSE IF TooLarge(cnt.value)
                THEN ReadResult("MALFORMED", NoMarker(haplotype_count), cnt.last + 1)
              ELSE
              LET es == marker_read_entries(bytes, cnt.last + 1,
                                            NatOfValue(cnt.value), -1,
                                            haplotype_count, <<>>)
              IN IF es.err # "none" THEN ReadResult(es.err, NoMarker(haplotype_count), es.next)
                 ELSE ReadResult("none",
                                 Marker(pos.value, ref.str, alt.str,
                                        haplotype_count, es.entries),
                                 es.next)

\* No read was made yet, no byte was written yet (a record has bytes).
Unread(haplotype_count) == ReadResult("unread", NoMarker(haplotype_count), 0)
Unwritten == <<>>

\* The sites (position, ref, alt) markers are built at.
Sites ==
  {<<ValueOfNat(12345), <<65>>, <<71>>>>,
   <<{0, 40}, <<65, 67>>, <<>>>>}

\* The dense sequences markers are built from: all up to MaxHap calls, and
\* the sequence of six calls (ref, alt, ref, ref, missing, ref).
SixCalls == <<has_ref, has_alt, has_ref, has_ref, is_missing, has_ref>>
DenseInputs == SeqsUpTo(allele_status, MaxHap) \cup {SixCalls}

MarkerInit ==
  /\ CVIdle
  /\ DotIdle
  /\ VarintIdle
  /\ FileIdle
  /\ \E gt \in DenseInputs, site \in Sites :
       /\ mSeq = gt
       /\ mTotal = Len(gt)
       /\ mk = marker_dense(site[1], site[2], site[3], gt)
       /\ mIt = marker_begin(marker_dense(site[1], site[2], site[3], gt))
  /\ mThrown = "none"
  /\ mFreq = <<>>
  /\ mYield = <<>>
  /\ mOut = Unwritten
  /\ mBack = Unread(mTotal)
  /\ mOut2 = Unwritten

\* One turn of for (it = m.begin(); it != m.end(); ++it) use(*it).
MarkerIterate ==
  /\ mThrown = "none"
  /\ const_iterator_neq(mIt, marker_end(mk))
  /\ Len(mYield) <= Len(mSeq)
  /\ mYield' = Append(mYield, const_iterator_deref(mk, mIt))
  /\ mIt' = const_iterator_increment(mk, mIt)
  /\ UNCHANGED <<mOut, mBack, mOut2, mFreq, markerArgs, otherThanMarker>>

\* marker::write(os, m)
MarkerWrite ==
  /\ mThrown = "none"
  /\ mOut = Unwritten
  /\ mOut' = marker_write(mk)
  /\ UNCHANGED <<mIt, mYield, mBack, mOut2, mFreq, markerArgs, otherThanMarker>>

\* marker::read(m2, m.haplotype_count(), is) on the bytes written
MarkerRead ==
  /\ mOut # Unwritten
  /\ mBack.err = "unread"
  /\ mBack' = marker_read(mk.haplotype_count_, mOut, 1)
  /\ UNCHANGED <<mIt, mYield, mOut, mOut2, mFreq, markerArgs, otherThanMarker>>

\* marker::write(os2, m2)
MarkerRewrite ==
  /\ mBack.err # "unread"
  /\ mBack.err = "none"
  /\ mOut2 = Unwritten
  /\ mOut2' = marker_write(mBack.marker)
  /\ UNCHANGED <<mIt, mYield, mOut, mBack, mFreq, markerArgs, otherThanMarker>>

\* m.calculate_allele_frequency()
MarkerFrequency ==
  /\ mThrown = "none"
  /\ mFreq = <<>>
  /\ mFreq' = calculate_allele_frequency(mk)
  /\ UNCHANGED <<mIt, mYield, mOut, mBack, mOut2, markerArgs, otherThanMarker>>

MarkerNext ==
  \/ MarkerFrequency
  \/ MarkerIterate
  \/ MarkerWrite
  \/ MarkerRead
  \/ MarkerRewrite

SpecMarker == MarkerInit /\ [][MarkerNext]_vars

\* A marker as spec 3 has it: entries strictly ascending by offset, below
\* haplotype_count, none with status has_ref.
WellFormed(m) ==
  /\ \A i \in 1..Len(m.non_zero_haplotypes_) :
       /\ m.non_zero_haplotypes_[i].offset < m.haplotype_count_
       /\ m.non_zero_haplotypes_[i].status # has_ref
  /\ \A i \in 1..(Len(m.non_zero_haplotypes_) - 1) :
       m.non_zero_haplotypes_[i].offset < m.non_zero_haplotypes_[i + 1].offset

\* C2: reading the bytes of a well-formed marker with its haplotype_count
\* gives a marker equal to it, consuming all the bytes, and writing that
\* marker again gives the same bytes.
C2_MarkerRoundTrip ==
  WellFormed(mk) =>
    /\ mBack.err # "unread" =>
         /\ mBack.err = "none"
         /\ mBack.marker = mk
         /\ mBack.next = Len(mOut) + 1
    /\ mOut2 # Unwritten => mOut2 = mOut

\* A marker with two entries of different status, at offsets that are not
\* adjacent, was written, read back and written again.
C2_Witness ==
  /\ mOut2 # Unwritten
  /\ WellFormed(mk)
  /\ Len(mk.non_zero_haplotypes_) = 2
  /\ mk.non_zero_haplotypes_[1].status = has_alt
  /\ mk.non_zero_haplotypes_[2].status = is_missing
  /\ mk.non_zero_haplotypes_[2].offset = 2
  /\ mk.non_zero_haplotypes_[1].offset = 0

\* The value and the prefix bit of a 1-bit prefixed varint of one byte, and
\* the sum of the values of the bytes first..last of a record.
EntryValue(b) == b % 64
EntryFlag(b) == b \div 64

RECURSIVE SumOfValues(_, _, _)
SumOfValues(bytes, first, last) ==
  IF first > last THEN 0
  ELSE EntryValue(bytes[first]) + SumOfValues(bytes, first + 1, last)

\* C23: the record of a well-formed marker ends with the entry count and
\* then one 1-bit prefixed varint per entry, in the order of the entries,
\* with the prefix bit 1 exactly for has_alt; the first value is the first
\* offset, every later value the difference to the offset before, so that
\* the values sum up to each offset, and every value is below
\* haplotype_count.
C23_WireDeltas ==
  (mOut # Unwritten /\ WellFormed(mk)) =>
    LET es == mk.non_zero_haplotypes_
        base == Len(mOut) - Len(es)
    IN /\ base >= 1
       /\ mOut[base] = Len(es)
       /\ \A k \in 1..Len(es) :
            /\ mOut[base + k] < 128
            /\ EntryFlag(mOut[base + k]) = 1 <=> es[k].status = has_alt
            /\ EntryValue(mOut[base + k]) =
                 es[k].offset - (IF k = 1 THEN 0 ELSE es[k - 1].offset)
            /\ SumOfValues(mOut, base + 1, base + k) = es[k].offset
            /\ EntryValue(mOut[base + k]) < mk.haplotype_count_

\* The marker of (ref, alt, missing) was written: count 2, then alt with
\* value 1 and missing with value 1.
C23_Witness ==
  /\ mSeq = <<has_ref, has_alt, is_missing>>
  /\ mOut # Unwritten
  /\ SubSeq(mOut, Len(mOut) - 2, Len(mOut)) = <<2, 65, 1>>

\* The offsets of seq whose call is not has_ref.
NonRefOffsets(seq) == {o \in 0..(Len(seq) - 1) : seq[o + 1] # has_ref}

\* C24: the marker the dense constructor builds from seq has
\* haplotype_count |seq| and stores the pair (o, seq[o]) for exactly the
\* offsets o with seq[o] # has_ref, ascending in o; for (ref, alt, ref, ref,
\* missing, ref) these are (1, alt), (4, missing).
C24_DenseConstruction ==
  LET es == mk.non_zero_haplotypes_
  IN /\ mk.haplotype_count_ = Len(mSeq)
     /\ Len(es) = Cardinality(NonRefOffsets(mSeq))
     /\ \A k \in 1..Len(es) :
          /\ es[k].offset \in NonRefOffsets(mSeq)
          /\ es[k].status = mSeq[es[k].offset + 1]
     /\ \A k \in 1..(Len(es) - 1) : es[k].offset < es[k + 1].offset
     /\ mSeq = <<has_ref, has_alt, has_ref, has_ref, is_missing, has_ref>> =>
          /\ Len(es) = 2
          /\ es[1].offset = 1 /\ es[1].status = has_alt
          /\ es[2].offset = 4 /\ es[2].status = is_missing

\* The marker of (ref, alt, ref, ref, missing, ref) was built and iterated
\* to its end.
C24_Witness ==
  /\ mSeq = <<has_ref, has_alt, has_ref, has_ref, is_missing, has_ref>>
  /\ mk.haplotype_count_ = 6
  /\ Len(mk.non_zero_haplotypes_) = 2
  /\ Len(mYield) = 6

\* C4: the statuses yielded by iterating a marker built from the dense
\* sequence s are s[1], s[2], ... in order, and the iterator equals end()
\* exactly when |s| statuses were yielded.
C4_DenseIteration ==
  /\ Len(mYield) <= Len(mSeq)
  /\ mYield = SubSeq(mSeq, 1, Len(mYield))
  /\ ~const_iterator_neq(mIt, marker_end(mk)) <=> Len(mYield) = Len(mSeq)

\* The iteration of a marker built from (alt, ref, missing) has ended.
C4_Witness ==
  /\ ~const_iterator_neq(mIt, marker_end(mk))
  /\ mSeq = <<has_alt, has_ref, is_missing>>
  /\ mYield = mSeq

(***************************************************************************)
(* One marker built by the sparse constructor, written and read back.      *)
(***************************************************************************)

\* The entries the sparse constructor is given.
SparseEntries ==
  {sparse_vector_allele(status, offset) :
     status \in allele_status, offset \in 0..MaxHap}

SparseInit ==
  /\ CVIdle
  /\ DotIdle
  /\ VarintIdle
  /\ FileIdle
  /\ \E gt \in SeqsUpTo(SparseEntries, MaxEntries), total \in 0..MaxHap,
        site \in Sites :
       /\ mSeq = gt
       /\ mTotal = total
       /\ mThrown = marker_sparse(site[1], site[2], site[3], gt, total).err
       /\ mk = marker_sparse(site[1], site[2], site[3], gt, total).marker
       /\ mIt = marker_begin(marker_sparse(site[1], site[2], site[3], gt, total).marker)
  /\ mFreq = <<>>
  /\ mYield = <<>>
  /\ mOut = Unwritten
  /\ mBack = Unread(mTotal)
  /\ mOut2 = Unwritten

SparseNext ==
  \/ MarkerFrequency
  \/ MarkerWrite
  \/ MarkerRead

SpecSparse == SparseInit /\ [][SparseNext]_vars

\* The entries of m are strictly ascending by offset and below
\* haplotype_count.
OrderedInRange(m) ==
  /\ \A i \in 1..Len(m.non_zero_haplotypes_) :
       m.non_zero_haplotypes_[i].offset < m.haplotype_count_
  /\ \A i \in 1..(Len(m.non_zero_haplotypes_) - 1) :
       m.non_zero_haplotypes_[i].offset < m.non_zero_haplotypes_[i + 1].offset

\* C11: the marker a constructor has built, and the marker a read has
\* delivered, have their entries strictly ascending by offset and every
\* offset below haplotype_count.
C11_MarkerWellFormed ==
  /\ mThrown = "none" => OrderedInRange(mk)
  /\ mBack.err = "none" => OrderedInRange(mBack.marker)

\* C12: the sparse constructor throws when an entry given has status has_ref
\* or when there are more entries than total_haplotype_count, and then
\* there is no marker to use; a marker it has built stores no entry with
\* has_ref.
C12_SparseRejects ==
  /\ ((\E i \in 1..Len(mSeq) : mSeq[i].status = has_ref) \/ mTotal < Len(mSeq))
       => (mThrown # "none" /\ mFreq = <<>> /\ mOut = Unwritten)
  /\ mThrown = "none" =>
       \A i \in 1..Len(mk.non_zero_haplotypes_) :
         mk.non_zero_haplotypes_[i].status # has_ref

\* The constructor has thrown for an entry with has_ref after one with
\* has_alt, given with enough haplotypes.
C12_Witness ==
  /\ mThrown # "none"
  /\ Len(mSeq) = 2
  /\ mTotal = 2
  /\ mSeq[1].status = has_alt
  /\ mSeq[2].status = has_ref

\* C13: when the record read has an entry whose accumulated offset is not
\* below the haplotype_count the read is given, the read ends MALFORMED
\* and delivers no marker; every offset of a marker a read delivers is
\* below haplotype_count.  (The entries written ascend, so that the offsets
\* accumulated from the record are those of the marker written.)
C13_ReadBoundsCheck ==
  mBack.err # "unread" =>
    /\ (/\ \A i \in 1..(Len(mk.non_zero_haplotypes_) - 1) :
             mk.non_zero_haplotypes_[i].offset < mk.non_zero_haplotypes_[i + 1].offset
        /\ \E i \in 1..Len(mk.non_zero_haplotypes_) :
             mk.non_zero_haplotypes_[i].offset >= mTotal)
         => (mBack.err = "MALFORMED" /\ mBack.marker = NoMarker(mTotal))
    /\ mBack.err = "none" =>
         \A i \in 1..Len(mBack.marker.non_zero_haplotypes_) :
           mBack.marker.non_zero_haplotypes_[i].offset < mTotal

\* The read of a record of two haplotypes whose first entry is at offset 0
\* and whose second is at offset 2 has ended MALFORMED.
C13_Witness ==
  /\ mBack.err = "MALFORMED"
  /\ mTotal = 2
  /\ Len(mk.non_zero_haplotypes_) = 2
  /\ mk.non_zero_haplotypes_[1].offset = 0
  /\ mk.non_zero_haplotypes_[2].offset = 2

\* The number of the entries of m with status.
CountStatus(m, status) ==
  Cardinality({i \in 1..Len(m.non_zero_haplotypes_) :
                 m.non_zero_haplotypes_[i].status = status})

\* C16: calculate_allele_frequency divides the number of entries with
\* has_alt by haplotype_count less the number of entries with is_missing;
\* that denominator is not below zero, and when it is zero the result is
\* not a number.
C16_AlleleFrequency ==
  mFreq # <<>> =>
    /\ mFreq[2] = CountStatus(mk, has_alt)
    /\ mFreq[3] = mk.haplotype_count_ - CountStatus(mk, is_missing)
    /\ mFreq[3] >= 0
    /\ mFreq[1] = IF mFreq[3] = 0 THEN "nan" ELSE "quotient"

\* The frequency of a marker of two haplotypes, both missing, was
\* calculated.
C16_Witness ==
  /\ mFreq # <<>>
  /\ mk.haplotype_count_ = 2
  /\ CountStatus(mk, is_missing) = 2
  /\ mFreq[1] = "nan"

(***************************************************************************)
(* vc::cmf::writer (cmf_reader.hpp) over an output stream, and              *)
(* vc::cmf::reader over the bytes it wrote.  The markers given to the       *)
(* writer are built by either constructor of marker.                        *)
(***************************************************************************)

\* version_string of the writer: "cvcf" 0 1 0 0.
version_string == <<99, 118, 99, 102, 0, 1, 0, 0>>

\* The loop over the samples of the writer's constructor, from sample at on.
RECURSIVE write_samples(_, _)
write_samples(samples, at) ==
  IF at > Len(samples) THEN <<>>
  ELSE varint_encode(ValueOfNat(Len(samples[at]))) \o samples[at]
         \o write_samples(samples, at + 1)

\* A constructor that writes the ploidy before the chromosome.
writer_header_ploidy_first(chromosome, ploidy, samples) ==
  version_string
    \o varint_encode(ValueOfNat(ploidy))
    \o varint_encode(ValueOfNat(Len(chromosome))) \o chromosome
    \o varint_encode(ValueOfNat(Len(samples)))
    \o write_samples(samples, 1)
    \o varint_encode(ValueOfNat(0))

\* writer::writer: the bytes written to output_stream_.
writer_header(chromosome, ploidy, samples) ==
  version_string
    \o varint_encode(ValueOfNat(Len(chromosome))) \o chromosome
    \o varint_encode(ValueOfNat(ploidy))
    \o varint_encode(ValueOfNat(Len(samples)))
    \o write_samples(samples, 1)
    \o varint_encode(ValueOfNat(0))

\* writer::writer: sample_size_ and ploidy_level_.
Writer(ploidy, samples) ==
  [sample_size_ |-> Len(samples), ploidy_level_ |-> ploidy]

\* An output stream: the bytes written so far and good().
OStream(bytes, good) == [bytes |-> bytes, good |-> good]

\* operator<< that writes the marker also when its haplotype_count differs.
writer_insert_writes_anyway(w, o, m) ==
  IF o.good
    THEN IF m.haplotype_count_ # w.sample_size_ * w.ploidy_level_
           THEN OStream(o.bytes \o marker_write(m), FALSE)
           ELSE OStream(o.bytes \o marker_write(m), o.good)
    ELSE o

\* operator<< without the test of good().
writer_insert_unguarded(w, o, m) ==
  IF m.haplotype_count_ # w.sample_size_ * w.ploidy_level_
    THEN OStream(o.bytes, FALSE)
    ELSE OStream(o.bytes \o marker_write(m), o.good)

\* writer::operator<<(m): the output stream after the call.
writer_insert(w, o, m) ==
  IF o.good
    THEN IF m.haplotype_count_ # w.sample_size_ * w.ploidy_level_
           THEN OStream(o.bytes, FALSE)
           ELSE OStream(o.bytes \o marker_write(m), o.good)
    ELSE o

\* The header of a reader; next is the position of the first marker record.
Reader(state, chromosome, ploidy, samples, next) ==
  [state |-> state, chromosome_ |-> chromosome, ploidy_level_ |-> ploidy,
   sample_ids_ |-> samples, next |-> next]

\* A reader whose header validation failed: no samples.
reader_failed(next) == Reader("failed", <<>>, 0, <<>>, next)

\* left length prefixed strings from position at on, after those in acc.
RECURSIVE read_strings(_, _, _, _)
read_strings(bytes, at, left, acc) ==
  IF left = 0 THEN [err |-> "none", strs |-> acc, next |-> at]
  ELSE LET str == read_string(bytes, at)
       IN IF str.err # "none"
            THEN [err |-> str.err, strs |-> acc, next |-> str.next]
            ELSE read_strings(bytes, str.next, left - 1, Append(acc, str.str))

\* reader::reader, last: the metadata descriptors md were decoded.
reader_open_done(chrom, ploidy, ids, md) ==
  IF md.err # "none" THEN reader_failed(md.next)
  ELSE Reader("open", chrom.str, NatOfValue(ploidy.value), ids.strs, md.next)

\* reader::reader, then: the number of metadata descriptors mcnt was decoded.
reader_open_metadata(bytes, chrom, ploidy, ids, mcnt) ==
  IF mcnt.err # "none" \/ TooLarge(mcnt.value)
    THEN reader_failed(mcnt.last + 1)
    ELSE reader_open_done(chrom, ploidy, ids,
                          read_strings(bytes, mcnt.last + 1,
                                       NatOfValue(mcnt.value), <<>>))

\* reader::reader, then: the sample names ids were decoded.
reader_open_ids(bytes, chrom, ploidy, ids) ==
  IF ids.err # "none" THEN reader_failed(ids.next)
  ELSE reader_open_metadata(bytes, chrom, ploidy, ids,
                            varint_decode(bytes, ids.next))

\* reader::reader, then: the number of samples cnt was decoded.
reader_open_samples(bytes, chrom, ploidy, cnt) ==
  IF cnt.err # "none" \/ TooLarge(cnt.value)
    THEN reader_failed(cnt.last + 1)
    ELSE reader_open_ids(bytes, chrom, ploidy,
                         read_strings(bytes, cnt.last + 1,
                                      NatOfValue(cnt.value), <<>>))

\* reader::reader, then: the ploidy (0..255) was decoded.
reader_open_ploidy(bytes, chrom, ploidy) ==
  IF ploidy.err # "none" \/ ploidy.value \cap (8..(U64Bits - 1)) # {}
    THEN reader_failed(ploidy.last + 1)
    ELSE reader_open_samples(bytes, chrom, ploidy,
                             varint_decode(bytes, ploidy.last + 1))

\* reader::reader, then: the chromosome was decoded.
reader_open_chromosome(bytes, chrom) ==
  IF chrom.err # "none" THEN reader_failed(chrom.next)
  ELSE reader_open_ploidy(bytes, chrom, varint_decode(bytes, chrom.next))

\* A constructor that decodes the header without looking at the magic and
\* version.
reader_open_unvalidated(bytes) ==
  reader_open_chromosome(bytes, read_string(bytes, Len(version_string) + 1))

\* reader::reader(input_stream): magic and version are validated, then
\* chromosome, ploidy, the sample names and the metadata descriptors are
\* decoded.
reader_open(bytes) ==
  IF Len(bytes) < Len(version_string)
     \/ SubSeq(bytes, 1, Len(version_string)) # version_string
    THEN reader_failed(1)
    ELSE reader_open_chromosome(bytes,
                                read_string(bytes, Len(version_string) + 1))

\* The outcome of reader::operator>>: what it returns, the state of the
\* reader after it, the marker delivered and the position after it.
ReadOutcome(ret, state, m, next) ==
  [ret |-> ret, state |-> state, marker |-> m, next |-> next]

\* The outcome of a read that does not fail the reader on an error.
reader_read_outcome_unlatched(r, at) ==
  IF r.err = "none" THEN ReadOutcome(TRUE, "open", r.marker, r.next)
  ELSE ReadOutcome(FALSE, "open", r.marker, r.next)

\* operator>> of an open reader at position at, after marker::read gave r:
\* true with the marker, false at the end of the stream, false and failed
\* after an error.
reader_read_outcome(r, at) ==
  IF r.err = "none" THEN ReadOutcome(TRUE, "open", r.marker, r.next)
  ELSE IF r.err = "EOF" THEN ReadOutcome(FALSE, "open", r.marker, at)
  ELSE ReadOutcome(FALSE, "failed", r.marker, r.next)

\* operator>> that goes on after a decode error.
reader_read_unlatched(state, haplotype_count, bytes, at) ==
  reader_read_outcome_unlatched(marker_read(haplotype_count, bytes, at), at)

\* reader::operator>>(destination) of a reader in state, at position at.
reader_read(state, haplotype_count, bytes, at) ==
  IF state # "open"
    THEN ReadOutcome(FALSE, state, NoMarker(haplotype_count), at)
    ELSE reader_read_outcome(marker_read(haplotype_count, bytes, at), at)

\* The headers (chromosome, ploidy, samples) files are written with: "20"
\* with the samples "s1", "s2" and ploidy 1 or 2, and two without samples.
TwoSamples == <<<<115, 49>>, <<115, 50>>>>
Headers ==
  {<<<<50, 48>>, 1, TwoSamples>>,
   <<<<50, 48>>, 2, TwoSamples>>,
   <<<<>>, 1, <<>>>>,
   <<<<88>>, 2, <<>>>>}

\* The entries given to the sparse constructor of a marker of n haplotypes:
\* in order, out of range, out of order, twice the same offset, and one
\* with has_ref.
SparseInputs(n) ==
  {<<sparse_vector_allele(is_missing, n - 1)>>,
   <<sparse_vector_allele(has_alt, n)>>,
   <<sparse_vector_allele(has_alt, n - 1), sparse_vector_allele(is_missing, 0)>>,
   <<sparse_vector_allele(has_alt, n - 1), sparse_vector_allele(has_alt, n - 1)>>,
   <<sparse_vector_allele(has_ref, n - 1)>>}

\* The most calls of operator>> on one reader.
MaxReads == MaxMarkers + 2

FileStart(headers, gts) ==
  /\ VcfIdle
  /\ CVIdle
  /\ DotIdle
  /\ VarintIdle
  /\ MarkerIdle
  /\ \E header \in headers :
       /\ fArgs = header
       /\ wr = Writer(header[2], header[3])
       /\ os = OStream(writer_header(header[1], header[2], header[3]), TRUE)
  /\ fGts = gts
  /\ wCalls = 0
  /\ wLastHap = -1
  /\ wAccepted = <<>>
  /\ wEverBad = FALSE
  /\ is = <<>>
  /\ rState = "closed"
  /\ rChromosome = <<>>
  /\ rPloidy = 0
  /\ rSampleIds = <<>>
  /\ rPos = 0
  /\ rReads = 0
  /\ rLast = <<"none", "closed", 0>>
  /\ rDelivered = <<>>
  /\ rEverFalse = FALSE
  /\ iReader = "unset"
  /\ iBuffer = <<>>
  /\ iVisited = <<>>

FileInit ==
  FileStart(Headers, SeqsUpTo(allele_status, MaxFileHap))

\* The sites (position, ref, alt) of the markers of a file, in file order,
\* and the site of the marker given to the writer next.
FileSites ==
  <<<<ValueOfNat(12345), <<65>>, <<71>>>>,
    <<{0, 40}, <<65, 67>>, <<>>>>>>
NextSite == FileSites[(wCalls % Len(FileSites)) + 1]

\* writer << m, before a reader is opened over the bytes written.
WriterInsert(m) ==
  /\ rState = "closed"
  /\ wCalls < MaxMarkers
  /\ os' = writer_insert(wr, os, m)
  /\ wCalls' = wCalls + 1
  /\ wLastHap' = m.haplotype_count_
  /\ LET fits == m.haplotype_count_ = Len(fArgs[3]) * fArgs[2]
     IN /\ wAccepted' = IF ~wEverBad /\ fits THEN Append(wAccepted, m)
                                             ELSE wAccepted
        /\ wEverBad' = (wEverBad \/ ~fits)
  /\ UNCHANGED <<fArgs, fGts, wr, readerVars, iterVars>>
  /\ UNCHANGED <<cvVars, dotVars, varintVars, markerVars, vcfVars>>

\* A marker built from a dense sequence is given to the writer.
WriteDense ==
  \E gt \in fGts :
    WriterInsert(marker_dense(NextSite[1], NextSite[2], NextSite[3], gt))

\* A marker built from sparse entries is given to the writer.
WriteSparse ==
  \E n \in 1..MaxFileHap :
    \E gt \in SparseInputs(n) :
      /\ marker_sparse(NextSite[1], NextSite[2], NextSite[3], gt, n).err = "none"
      /\ WriterInsert(marker_sparse(NextSite[1], NextSite[2], NextSite[3],
                                    gt, n).marker)

\* The reader is r, constructed over bytes.
ReaderSet(bytes, r) ==
  /\ is' = bytes
  /\ rState' = r.state
  /\ rChromosome' = r.chromosome_
  /\ rPloidy' = r.ploidy_level_
  /\ rSampleIds' = r.sample_ids_
  /\ rPos' = r.next

\* A reader is constructed over bytes.
ReaderConstruct(bytes) ==
  /\ rState = "closed"
  /\ ReaderSet(bytes, reader_open(bytes))
  /\ UNCHANGED <<rReads, rLast, rDelivered, rEverFalse, iterVars,
                 writerVars, cvVars, dotVars, varintVars, markerVars, vcfVars>>

\* A reader is opened over the bytes the writer wrote.
ReaderOpen == ReaderConstruct(os.bytes)

\* The reader and the history of its reads after a read with outcome r.
ReaderAfterRead(r) ==
  /\ rState' = r.state
  /\ rPos' = r.next
  /\ rLast' = <<IF r.ret THEN "true" ELSE "false", rState, rPos>>
  /\ rDelivered' = IF r.ret THEN Append(rDelivered, r.marker) ELSE rDelivered
  /\ rEverFalse' = (rEverFalse \/ ~r.ret)

\* reader >> m
ReaderRead ==
  /\ rState # "closed"
  /\ rReads < MaxReads
  /\ ReaderAfterRead(reader_read(rState, Len(rSampleIds) * rPloidy, is, rPos))
  /\ rReads' = rReads + 1
  /\ UNCHANGED <<is, rChromosome, rPloidy, rSampleIds, iterVars,
                 writerVars, cvVars, dotVars, varintVars, markerVars, vcfVars>>

FileNext ==
  \/ WriteDense
  \/ WriteSparse
  \/ ReaderOpen
  \/ ReaderRead

SpecFile == FileInit /\ [][FileNext]_vars

\* The bytes of the markers ms from marker at on, one record after the other.
RECURSIVE Serializations(_, _)
Serializations(ms, at) ==
  IF at > Len(ms) THEN <<>>
  ELSE marker_write(ms[at]) \o Serializations(ms, at + 1)

\* The number of haplotypes the header of the file stands for: S * p.
HeaderHaplotypes == Len(fArgs[3]) * fArgs[2]

\* C1: when every marker given to the writer had the haplotype_count of the
\* header, a reader over the bytes written is open with the chromosome, the
\* ploidy and the sample names given to the writer, the markers it delivers
\* are the markers given, in order, and when a read has returned false all
\* of them were delivered.
C1_FileRoundTrip ==
  (rState # "closed" /\ ~wEverBad) =>
    /\ rState = "open"
    /\ rChromosome = fArgs[1]
    /\ rPloidy = fArgs[2]
    /\ rSampleIds = fArgs[3]
    /\ Len(rDelivered) <= Len(wAccepted)
    /\ rDelivered = SubSeq(wAccepted, 1, Len(rDelivered))
    /\ rEverFalse => rDelivered = wAccepted

\* The round trip of C1 for the files whose markers are all well-formed.
FileRoundTripWellFormed ==
  (\A i \in 1..Len(wAccepted) : WellFormed(wAccepted[i])) => C1_FileRoundTrip

\* Two well-formed markers were written and read back, and the next read
\* has returned false.
FileRoundTripWitness ==
  /\ ~wEverBad
  /\ rEverFalse
  /\ Len(rDelivered) = 2
  /\ \A i \in 1..2 : WellFormed(wAccepted[i])
  /\ Len(rDelivered[1].non_zero_haplotypes_) = 2
  /\ rDelivered[1].position_ # rDelivered[2].position_
  /\ Len(rSampleIds) = 2

\* C8: a call of operator<< on a good stream with a marker whose
\* haplotype_count is not S * p leaves the stream failed and the bytes
\* written as they were before the call.
C8_WriterMismatch ==
  [][(wCalls' = wCalls + 1 /\ os.good /\ wLastHap' # HeaderHaplotypes)
       => (~os'.good /\ os'.bytes = os.bytes)]_vars

\* The first marker given to a writer of two samples with ploidy 1 had one
\* haplotype: the stream has failed and holds the header only.
C8_Witness ==
  /\ wCalls = 1
  /\ wLastHap = 1
  /\ HeaderHaplotypes = 2
  /\ ~os.good
  /\ os.bytes = writer_header(fArgs[1], fArgs[2], fArgs[3])

\* C9: after any calls of operator<< the bytes written are the header and
\* then the records of the markers given before the first one with another
\* haplotype_count, in order, and the stream is good exactly when there was
\* no such marker: no call after the first failure writes or repairs.
C9_WriterFailedTerminal ==
  /\ os.bytes = writer_header(fArgs[1], fArgs[2], fArgs[3])
                  \o Serializations(wAccepted, 1)
  /\ os.good <=> ~wEverBad

\* After a marker of two haplotypes was written, one of another
\* haplotype_count was given and then one of two haplotypes again.
C9_Witness ==
  /\ wCalls = 3
  /\ HeaderHaplotypes = 2
  /\ wEverBad
  /\ Len(wAccepted) = 1
  /\ wLastHap = 2
  /\ ~os.good

\* The unsigned varint (P = 0) of a number below 2^14, byte by byte: seven
\* bits a byte, the low ones first, bit 7 set on every byte but the last.
PlainVarint(n) ==
  IF n < 128 THEN <<n>> ELSE <<128 + (n % 128), n \div 128>>

\* The length prefixed names of the samples from sample at on.
RECURSIVE NamedSamples(_, _)
NamedSamples(samples, at) ==
  IF at > Len(samples) THEN <<>>
  ELSE PlainVarint(Len(samples[at])) \o samples[at]
         \o NamedSamples(samples, at + 1)

\* The header of the file format for the arguments given to the writer.
HeaderLayout ==
  <<99, 118, 99, 102, 0, 1, 0, 0>>
    \o PlainVarint(Len(fArgs[1])) \o fArgs[1]
    \o PlainVarint(fArgs[2])
    \o PlainVarint(Len(fArgs[3]))
    \o NamedSamples(fArgs[3], 1)
    \o PlainVarint(0)

\* C21: the bytes the constructor of the writer emits are the magic and
\* version, varint(|chromosome|) and the chromosome, varint(ploidy),
\* varint(S), for each sample in input order varint(length) and the name,
\* and the count 0 of metadata fields, and nothing else: they are all the
\* stream holds before the first marker and they stay its beginning.
C21_WriterHeader ==
  /\ Len(os.bytes) >= Len(HeaderLayout)
  /\ SubSeq(os.bytes, 1, Len(HeaderLayout)) = HeaderLayout
  /\ wCalls = 0 => os.bytes = HeaderLayout

\* The writer of chromosome "20", ploidy 1 and the samples "s1", "s2" was
\* constructed and no marker was given to it.
C21_Witness ==
  /\ wCalls = 0
  /\ os.bytes = <<99, 118, 99, 102, 0, 1, 0, 0, 2, 50, 48, 1,
                  2, 2, 115, 49, 2, 115, 50, 0>>

(***************************************************************************)
(* A reader over a file that may have been damaged on the way: cut short,   *)
(* or with one byte overwritten.  The file has the samples "s1", "s2" with  *)
(* ploidy 1; the markers given to the writer have one or two haplotypes.    *)
(***************************************************************************)

DamageBytes == {63, 255}

Damaged(bytes) ==
  ({SubSeq(bytes, 1, n) : n \in 0..(Len(bytes) - 1)}
     \cup {[bytes EXCEPT ![i] = b] : i \in 1..Len(bytes), b \in DamageBytes})
    \ {bytes}

ReaderInit ==
  FileStart({<<<<50, 48>>, 1, TwoSamples>>},
            {<<is_missing>>, <<has_ref, has_alt>>})

\* A reader is opened over a damaged copy of the bytes the writer wrote.
ReaderOpenDamaged == \E bytes \in Damaged(os.bytes) : ReaderConstruct(bytes)

ReaderNext ==
  \/ WriteDense
  \/ ReaderOpen
  \/ ReaderOpenDamaged
  \/ ReaderRead

SpecReader == ReaderInit /\ [][ReaderNext]_vars

\* C10: a call of operator>> returns true only when the reader was open and
\* a complete marker record is decoded at its position, and that marker is
\* delivered; on an open reader it returns false when no record is decoded
\* (end of stream or an error); after an error the reader is failed; a failed
\* reader stays failed; and once a read has returned false a read returns
\* false and delivers nothing.
C10_ReaderFailedTerminal ==
  [][rReads' = rReads + 1 =>
       LET d == marker_read(Len(rSampleIds) * rPloidy, is, rPos)
       IN /\ rLast'[1] = "true" =>
               /\ rState = "open"
               /\ d.err = "none"
               /\ rDelivered' = Append(rDelivered, d.marker)
          /\ (rState = "open" /\ d.err # "none") => rLast'[1] = "false"
          /\ (rState = "open" /\ d.err \notin {"none", "EOF"}) =>
               rState' = "failed"
          /\ rState = "failed" => rState' = "failed"
          /\ rEverFalse =>
               /\ rLast'[1] = "false"
               /\ rDelivered' = rDelivered]_vars

\* After a marker was delivered a read has failed on a record whose entry
\* is out of range; a later read has returned false although the bytes at
\* the position of the reader are a complete record.
C10_Witness ==
  /\ rState = "failed"
  /\ rReads >= 3
  /\ Len(rDelivered) = 1
  /\ rLast = <<"false", "failed", rPos>>
  /\ marker_read(Len(rSampleIds) * rPloidy, is, rPos).err = "none"

\* The source does not begin with the magic and version.
BadMagic ==
  \/ Len(is) < 8
  \/ SubSeq(is, 1, 8) # <<99, 118, 99, 102, 0, 1, 0, 0>>

\* The source is the header the writer wrote, cut short.
TruncatedHeader ==
  /\ Len(is) < Len(HeaderLayout)
  /\ is = SubSeq(HeaderLayout, 1, Len(is))

\* C22: a reader constructed over a source that does not begin with the
\* magic and version, or whose header is truncated, is failed, its
\* sample_count() is 0, and no read on it returns a marker.
C22_ReaderHeaderValidation ==
  (rState # "closed" /\ (BadMagic \/ TruncatedHeader)) =>
    /\ rState = "failed"
    /\ Len(rSampleIds) = 0
    /\ rLast[1] # "true"
    /\ rDelivered = <<>>

\* A reader over a file of one marker whose first byte was overwritten has
\* been read from twice.
C22_Witness ==
  /\ rState = "failed"
  /\ Len(is) = Len(os.bytes)
  /\ is[1] = 63
  /\ SubSeq(is, 2, Len(is)) = SubSeq(os.bytes, 2, Len(os.bytes))
  /\ wCalls = 1
  /\ rReads = 2
  /\ rDelivered = <<>>

\* A reader over a header cut short inside the sample names was read from.
C22_WitnessTruncated ==
  /\ TruncatedHeader
  /\ Len(is) = Len(HeaderLayout) - 2
  /\ rReads = 1
  /\ rState = "failed"

(***************************************************************************)
(* vc::cmf::reader::input_iterator (cmf_reader.hpp:145-179): the loop       *)
(*   for (input_iterator it(reader, buffer); it != end; ++it) body;        *)
(* over a reader of a file, whole or damaged.                               *)
(***************************************************************************)

\* An increment that keeps file_reader_ whatever the read returned.
input_iterator_increment_keeps_reader(r) == "reader"

\* input_iterator::increment, after operator>> had the outcome r:
\* file_reader_ is set to nullptr when the reader is not good() after it.
input_iterator_increment(r) == IF ~r.ret THEN "null" ELSE "reader"

\* increment(): *file_reader_ >> *buffer_, and what it leaves in the
\* iterator and in the reader.
IterIncrement(r) ==
  /\ ReaderAfterRead(r)
  /\ rReads' = rReads + 1
  /\ iReader' = input_iterator_increment(r)
  /\ iBuffer' = r.marker
  /\ UNCHANGED <<is, rChromosome, rPloidy, rSampleIds,
                 writerVars, cvVars, dotVars, varintVars, markerVars, vcfVars>>

\* input_iterator it(reader, buffer)
IterConstruct ==
  /\ rState # "closed"
  /\ iReader = "unset"
  /\ IterIncrement(reader_read(rState, Len(rSampleIds) * rPloidy, is, rPos))
  /\ UNCHANGED iVisited

\* One turn of the loop: it != end, the body reads *it, ++it.
IterStep ==
  /\ iReader = "reader"
  /\ iVisited' = Append(iVisited, iBuffer)
  /\ IterIncrement(reader_read(rState, Len(rSampleIds) * rPloidy, is, rPos))

IterInit == ReaderInit

IterNext ==
  \/ WriteDense
  \/ ReaderOpen
  \/ ReaderOpenDamaged
  \/ IterConstruct
  \/ IterStep

SpecIter == IterInit /\ [][IterNext]_vars

\* C28: a constructed input_iterator equals the end iterator exactly when
\* its most recent read failed; while it does not, *it is the marker of the
\* most recent successful read; the loop body is given the markers read, each
\* once and in order, which for a reader over the bytes the writer wrote are
\* the markers written when the loop has ended; no read is made through a
\* null file_reader_.
C28_IteratorState ==
  iReader # "unset" =>
    /\ iReader = "null" <=> rLast[1] = "false"
    /\ iReader = "reader" =>
         /\ Len(rDelivered) > 0
         /\ iBuffer = rDelivered[Len(rDelivered)]
         /\ iVisited = SubSeq(rDelivered, 1, Len(rDelivered) - 1)
    /\ iReader = "null" => iVisited = rDelivered
    /\ (iReader = "null" /\ is = os.bytes) => iVisited = wAccepted
    /\ rReads = Len(iVisited) + 1

\* The loop over a file of two markers has ended.
C28_Witness ==
  /\ iReader = "null"
  /\ is = os.bytes
  /\ Len(iVisited) = 2
  /\ iVisited[1] # iVisited[2]
  /\ rReads = 3

\* The loop over a file whose second record is damaged has ended after the
\* first marker.
IteratorEndsAtError ==
  /\ iReader = "null"
  /\ rState = "failed"
  /\ Len(iVisited) = 1
  /\ wCalls >= 2

(***************************************************************************)
(* vc::vcf::reader::input_iterator (vcf_reader.hpp:116-153): the loop       *)
(*   for (input_iterator it(reader, buffer); it != end; ++it) body;        *)
(* over a file given as the marker counts of its blocks.  read_next_block  *)
(* is only declared: it is taken to fill the buffer with the next block    *)
(* and return true, or to return false when no block is left.              *)
(***************************************************************************)
MaxBlocks == 3         \* most blocks of a file
MaxBlockMarkers == 2   \* most markers of a block

\* reader::read_next_block(destination): what it returns, and marker_count()
\* of the buffer after it; a failed read leaves count, one of the counts the
\* buffer may then have.
read_next_block(file, next, count) ==
  IF next <= Len(file) THEN <<TRUE, file[next]>> ELSE <<FALSE, count>>

VcfInit ==
  /\ CVIdle
  /\ DotIdle
  /\ VarintIdle
  /\ MarkerIdle
  /\ fArgs = Idle /\ fGts = Idle /\ wr = Idle /\ os = Idle /\ wCalls = Idle
  /\ wLastHap = Idle /\ wAccepted = Idle /\ wEverBad = Idle
  /\ is = Idle /\ rState = Idle /\ rChromosome = Idle /\ rPloidy = Idle
  /\ rSampleIds = Idle /\ rPos = Idle /\ rReads = Idle /\ rLast = Idle
  /\ rDelivered = Idle /\ rEverFalse = Idle
  /\ iReader = Idle /\ iBuffer = Idle /\ iVisited = Idle
  /\ vcfFile \in SeqsUpTo(1..MaxBlockMarkers, MaxBlocks)
  /\ vcfNext = 1
  /\ vcfReader = "unset"
  /\ vcfCount = 0
  /\ vcfI = 0
  /\ vcfVisited = <<>>

vcfFrame ==
  UNCHANGED <<vcfFile, cvVars, dotVars, varintVars, markerVars,
              writerVars, readerVars, iterVars>>

\* input_iterator(reader& file_reader, block& buffer): i_(0), and a call of
\* read_next_block whose result is not looked at.
VcfConstruct ==
  /\ vcfReader = "unset"
  /\ vcfReader' = "reader"
  /\ vcfI' = 0
  /\ vcfCount' \in {read_next_block(vcfFile, vcfNext, c)[2] : c \in {0, vcfCount}}
  /\ vcfNext' = IF vcfNext <= Len(vcfFile) THEN vcfNext + 1 ELSE vcfNext
  /\ UNCHANGED vcfVisited
  /\ vcfFrame

\* One turn of the loop while it != end: the body dereferences the iterator,
\* (*buffer_)[i_], then ++it runs increment().
VcfStep ==
  /\ vcfReader = "reader"
  /\ vcfVisited' = Append(vcfVisited, <<vcfNext - 1, vcfI>>)
  /\ IF vcfI < vcfCount
       THEN /\ vcfI' = vcfI + 1
            /\ UNCHANGED <<vcfNext, vcfReader, vcfCount>>
       ELSE /\ vcfI' = 0
            /\ vcfCount' \in {read_next_block(vcfFile, vcfNext, c)[2] :
                                c \in {0, vcfCount}}
            /\ vcfReader' = IF read_next_block(vcfFile, vcfNext, vcfCount)[1]
                               THEN "reader" ELSE "null"
            /\ vcfNext' = IF vcfNext <= Len(vcfFile) THEN vcfNext + 1 ELSE vcfNext
  /\ vcfFrame

VcfNext ==
  \/ VcfConstruct
  \/ VcfStep

SpecVcf == VcfInit /\ [][VcfNext]_vars

\* The markers of the blocks 1..n of the file, as <<block, index>>, in order.
RECURSIVE MarkersOfBlocks(_, _)
MarkersOfBlocks(file, n) ==
  IF n = 0 THEN <<>>
  ELSE MarkersOfBlocks(file, n - 1) \o [i \in 1..file[n] |-> <<n, i - 1>>]

\* C29: whenever a constructed vcf input_iterator is unequal to the end
\* iterator its i_ is below marker_count() of the current block, and when
\* the loop has ended every marker of every block was dereferenced exactly
\* once, in order.
C29_BlockIteratorInRange ==
  /\ vcfReader = "reader" => vcfI < vcfCount
  /\ vcfReader = "null" => vcfVisited = MarkersOfBlocks(vcfFile, Len(vcfFile))

\* What holds instead: i_ is at most marker_count(), and the loop over a
\* file with blocks dereferences every marker once and, after the last
\* marker of each block, the index marker_count() once.
BlockIteratorAtMostCount ==
  /\ vcfReader = "reader" => vcfI <= vcfCount
  /\ (vcfReader = "null" /\ Len(vcfFile) > 0) =>
       /\ Len(vcfVisited) = Len(MarkersOfBlocks(vcfFile, Len(vcfFile)))
                              + Len(vcfFile)
       /\ \A k \in 1..Len(vcfVisited) :
            vcfVisited[k][2] <= vcfFile[vcfVisited[k][1]]

====
